---- MODULE Spec2Model ----
(***************************************************************************)
(* Incremental revalidation cache of the Jira ticket validator.           *)
(*                                                                         *)
(*   src/lib/validation-history.ts        ValidationHistoryManager        *)
(*   src/unnamed/part_002                 the page: validateTickets,       *)
(*                                        refreshAndRevalidateSingleTicket *)
(*   src/app/api/validate-tickets/route.ts  POST, validateSpecificFields,  *)
(*                                        validateFullTicket               *)
(*                                                                         *)
(* The page runs on the JavaScript event loop: an action of this module is *)
(* one run-to-completion stretch of a handler, from one await to the next. *)
(* An optional value (T | null) is a sequence of length at most one.       *)
(***************************************************************************)
EXTENDS Integers, Sequences, FiniteSets, TLC

VARIABLES
    jira,          \* the issue tracker: ticket key -> current ticket
    edits,         \* number of edits made in the issue tracker
    tickets,       \* React state `tickets`
    validationResults,  \* React state `validationResults`
    isLoading,     \* React state `isLoading`
    revalidatingTicketKey, \* React state `revalidatingTicketKey` (<<>> is null)
    error,         \* React state `error`
    fetching,      \* a fetchTickets call is awaiting its response
    history,       \* localStorage["jira-validation-history"], parsed
    clock,         \* the wall clock read by new Date()
    reqs,          \* validation requests in flight: request id -> locals
    nreq,          \* number of validation requests started so far
    ret,           \* the requests that returned in the latest returning step, with their locals
    fn,            \* argument and result of the pure function under test
    dropped        \* ticket key -> the snapshot of the entry Clear History removed,
                   \* until a validation of the ticket reads the store

vars == <<jira, edits, tickets, validationResults, isLoading, revalidatingTicketKey,
          error, fetching, history, clock, reqs, nreq, ret, fn, dropped>>

-----------------------------------------------------------------------------
(* Bounds of the model *)

\* edits made to tickets in the issue tracker
MaxEdits == 1
\* validation requests (one per ticket of a batch, one per refresh click)
MaxRequests == 3
\* length of the lists handed to mergeValidationResults when it is checked alone
MaxMergeLen == 2
\* length of the fieldsToValidate list when the route is checked alone
MaxFields == 2
\* validation requests started when termination is checked
LiveRequests == 2

-----------------------------------------------------------------------------
(* Data *)

KeyOrder == <<"T1", "T2">>
Keys == {"T1", "T2"}
Values == {"a", "b"}
\* assignee?: string  -- the property may be absent
Unset == "undefined"

\* the fields detectChangedFields compares, in the order of its six tests
FieldNames == <<"summary", "description", "priority", "status", "assignee", "reporter">>
FieldSet == {FieldNames[i] : i \in 1..Len(FieldNames)}
FieldValues(f) == IF f = "assignee" THEN Values \cup {Unset} ELSE Values
\* an edit sets a new text or removes the assignee
EditValues(f) == IF f = "assignee" THEN {Unset} ELSE {"b"}

\* TicketSnapshot / JiraTicket
Snapshots ==
    [key : Keys, summary : Values, description : Values, priority : Values,
     status : Values, assignee : Values \cup {Unset}, reporter : Values,
     created : Values]

Range(s) == {s[i] : i \in 1..Len(s)}

RECURSIVE SumScores(_)
SumScores(rs) == IF rs = <<>> THEN 0 ELSE Head(rs).score + SumScores(Tail(rs))

RECURSIVE FlatMap(_, _)
FlatMap(rs, prop) == IF rs = <<>> THEN <<>> ELSE Head(rs)[prop] \o FlatMap(Tail(rs), prop)

Fields(rs) == [i \in 1..Len(rs) |-> rs[i].field]

\* Array.prototype.find: the first element with the field name, or none
Find(rs, f) ==
    LET hits == SelectSeq(rs, LAMBDA r : r.field = f)
    IN  IF hits = <<>> THEN <<>> ELSE <<Head(hits)>>

\* 0 / 0 in JavaScript
NaN == -1
\* JSON.stringify(NaN) is "null"
JsonNull == -2

\* Math.floor(sum / length) over a list of field results
MathFloorMean(rs) == IF Len(rs) = 0 THEN NaN ELSE SumScores(rs) \div Len(rs)
\* Math.round(sum / length): halves round up
MathRoundMean(rs) ==
    IF Len(rs) = 0 THEN NaN ELSE (2 * SumScores(rs) + Len(rs)) \div (2 * Len(rs))

-----------------------------------------------------------------------------
(* ValidationHistoryManager *)

\* getTicketHistory: history.find(entry => entry.ticketKey === ticketKey) || null
getTicketHistory(h, k) ==
    LET hits == SelectSeq(h, LAMBDA e : e.ticketKey = k)
    IN  IF hits = <<>> THEN <<>> ELSE <<Head(hits)>>

\* detectChangedFields with its sixth test (reporter) left out
detectChangedFieldsNoReporter(current, previous) ==
    (IF current.summary # previous.summary THEN <<"summary">> ELSE <<>>)
    \o (IF current.description # previous.description THEN <<"description">> ELSE <<>>)
    \o (IF current.priority # previous.priority THEN <<"priority">> ELSE <<>>)
    \o (IF current.status # previous.status THEN <<"status">> ELSE <<>>)
    \o (IF current.assignee # previous.assignee THEN <<"assignee">> ELSE <<>>)

\* detectChangedFields: six tests, each pushing its field name
detectChangedFields(current, previous) ==
    (IF current.summary # previous.summary THEN <<"summary">> ELSE <<>>)
    \o (IF current.description # previous.description THEN <<"description">> ELSE <<>>)
    \o (IF current.priority # previous.priority THEN <<"priority">> ELSE <<>>)
    \o (IF current.status # previous.status THEN <<"status">> ELSE <<>>)
    \o (IF current.assignee # previous.assignee THEN <<"assignee">> ELSE <<>>)
    \o (IF current.reporter # previous.reporter THEN <<"reporter">> ELSE <<>>)

\* createTicketSnapshot: copies the eight properties
createTicketSnapshot(ticket) ==
    [key |-> ticket.key, summary |-> ticket.summary, description |-> ticket.description,
     priority |-> ticket.priority, status |-> ticket.status, assignee |-> ticket.assignee,
     reporter |-> ticket.reporter, created |-> ticket.created]

\* new Set([...previousResults.map(r => r.field), ...newResults.map(r => r.field)]):
\* the distinct names in order of first occurrence
RECURSIVE Unique(_)
Unique(s) ==
    IF s = <<>> THEN <<>>
    ELSE LET init == Unique(SubSeq(s, 1, Len(s) - 1))
             last == s[Len(s)]
         IN  IF last \in Range(init) THEN init ELSE Append(init, last)

RECURSIVE MergeLoop(_, _, _, _)
MergeLoop(allFields, previousResults, newResults, changedFields) ==
    IF allFields = <<>> THEN <<>>
    ELSE LET fieldName == Head(allFields)
             pick == IF fieldName \in Range(changedFields)
                     THEN Find(newResults, fieldName)
                     ELSE Find(previousResults, fieldName)
         IN  pick \o MergeLoop(Tail(allFields), previousResults, newResults, changedFields)

\* a merge by filtering: the unchanged entries of previousResults, then the
\* changed entries of newResults, every occurrence of a name kept
mergeValidationResultsKeepAll(previousResults, newResults, changedFields) ==
    SelectSeq(previousResults, LAMBDA r : r.field \notin Range(changedFields))
    \o SelectSeq(newResults, LAMBDA r : r.field \in Range(changedFields))

\* a merge that takes the entry of newResults whenever newResults has one
mergeValidationResultsPreferNew(previousResults, newResults, changedFields) ==
    MergeLoop(Unique(Fields(previousResults) \o Fields(newResults)),
              previousResults, newResults,
              changedFields \o Fields(newResults))

\* a merge that keeps the previous entry of every field of previousResults,
\* changed or not
mergeValidationResultsKeepPrevious(previousResults, newResults, changedFields) ==
    MergeLoop(Unique(Fields(previousResults) \o Fields(newResults)),
              previousResults, newResults,
              SelectSeq(changedFields, LAMBDA f : f \notin Range(Fields(previousResults))))

\* a merge that walks changedFields first: the fresh results come out in the
\* order of changedFields, ahead of the reused ones
mergeValidationResultsChangedFirst(previousResults, newResults, changedFields) ==
    MergeLoop(Unique(changedFields \o Fields(previousResults) \o Fields(newResults)),
              previousResults, newResults, changedFields)

\* mergeValidationResults
mergeValidationResults(previousResults, newResults, changedFields) ==
    MergeLoop(Unique(Fields(previousResults) \o Fields(newResults)),
              previousResults, newResults, changedFields)

\* JSON.stringify / JSON.parse of an entry: a NaN score comes back as null
JsonEntry(e) ==
    [e EXCEPT !.overallScore = IF e.overallScore = NaN THEN JsonNull ELSE e.overallScore]

\* updateTicketHistory without the findIndex: the new entry is always pushed
updateTicketHistoryAppend(h, ticketKey, snapshot, fieldResults, now) ==
    LET overallScore == MathRoundMean(fieldResults)
        isValid == (\A i \in 1..Len(fieldResults) : fieldResults[i].isValid = "true")
                   /\ overallScore >= 7
    IN  Append(h, JsonEntry([ticketKey |-> ticketKey, snapshot |-> snapshot,
                             fieldResults |-> fieldResults, overallScore |-> overallScore,
                             isValid |-> isValid, timestamp |-> now]))

\* updateTicketHistory saving only the new entry: what a write would do that
\* did not read the stored list first
updateTicketHistoryAlone(h, ticketKey, snapshot, fieldResults, now) ==
    LET overallScore == MathRoundMean(fieldResults)
        isValid == (\A i \in 1..Len(fieldResults) : fieldResults[i].isValid = "true")
                   /\ overallScore >= 7
    IN  << JsonEntry([ticketKey |-> ticketKey, snapshot |-> snapshot,
                      fieldResults |-> fieldResults, overallScore |-> overallScore,
                      isValid |-> isValid, timestamp |-> now]) >>

\* updateTicketHistory stamping every entry of the list with the time of the write
updateTicketHistoryRestamping(h, ticketKey, snapshot, fieldResults, now) ==
    LET overallScore == MathRoundMean(fieldResults)
        isValid == (\A i \in 1..Len(fieldResults) : fieldResults[i].isValid = "true")
                   /\ overallScore >= 7
        newEntry == JsonEntry([ticketKey |-> ticketKey, snapshot |-> snapshot,
                               fieldResults |-> fieldResults, overallScore |-> overallScore,
                               isValid |-> isValid, timestamp |-> now])
        stamped == [n \in 1..Len(h) |->
                       IF h[n].ticketKey = ticketKey THEN newEntry
                       ELSE [h[n] EXCEPT !.timestamp = now]]
    IN  IF \E n \in 1..Len(h) : h[n].ticketKey = ticketKey
        THEN stamped ELSE Append(stamped, newEntry)

\* updateTicketHistory: the history after the call, written at time `now`
updateTicketHistory(h, ticketKey, snapshot, fieldResults, now) ==
    LET overallScore == MathRoundMean(fieldResults)
        isValid == (\A i \in 1..Len(fieldResults) : fieldResults[i].isValid = "true")
                   /\ overallScore >= 7
        newEntry == [ticketKey |-> ticketKey, snapshot |-> snapshot,
                     fieldResults |-> fieldResults, overallScore |-> overallScore,
                     isValid |-> isValid, timestamp |-> now]
        existing == {i \in 1..Len(h) : h[i].ticketKey = ticketKey}
        existingIndex == IF existing = {} THEN 0
                         ELSE CHOOSE i \in existing : \A j \in existing : i <= j
    IN  IF existingIndex >= 1
        THEN [h EXCEPT ![existingIndex] = JsonEntry(newEntry)]
        ELSE Append(h, JsonEntry(newEntry))

\* clearHistory: localStorage.removeItem
clearHistory(h) == <<>>

\* where the class runs: a browser whose localStorage works, a browser whose
\* localStorage throws on access, or the server, where window is undefined
Stores == {"browser", "throwing", "server"}

\* getHistory, with the outcome of the call: on the server it returns [] ahead
\* of any read; nothing catches what getItem throws
getHistory(store, stored) ==
    CASE store = "server" -> [threw |-> FALSE, value |-> <<>>, stored |-> stored]
      [] store = "throwing" -> [threw |-> TRUE, value |-> <<>>, stored |-> stored]
      [] OTHER -> [threw |-> FALSE, value |-> stored, stored |-> stored]

\* saveHistory: on the server it returns ahead of any write; nothing catches
\* what setItem throws
saveHistory(store, stored, h) ==
    CASE store = "server" -> [threw |-> FALSE, value |-> <<>>, stored |-> stored]
      [] store = "throwing" -> [threw |-> TRUE, value |-> <<>>, stored |-> stored]
      [] OTHER -> [threw |-> FALSE, value |-> <<>>, stored |-> h]

\* clearHistory with the outcome of the call
clearHistoryIn(store, stored) ==
    CASE store = "server" -> [threw |-> FALSE, value |-> <<>>, stored |-> stored]
      [] store = "throwing" -> [threw |-> TRUE, value |-> <<>>, stored |-> stored]
      [] OTHER -> [threw |-> FALSE, value |-> <<>>, stored |-> clearHistory(stored)]

-----------------------------------------------------------------------------
(* The validate-tickets route.  It runs on the server, where
   typeof window === "undefined": getHistory() returns [] there. *)

ServerHistory == <<>>

\* what generateText and JSON.parse can do for one field
FieldOutcomes ==
    {[kind |-> "throw", score |-> 0, issues |-> <<>>, suggestions |-> <<>>],
     [kind |-> "unparsable", score |-> 0, issues |-> <<>>, suggestions |-> <<>>],
     [kind |-> "json", score |-> 8, issues |-> <<>>, suggestions |-> <<>>],
     [kind |-> "json", score |-> 5, issues |-> <<"issue">>, suggestions |-> <<"fix">>]}

\* getFieldValue
getFieldValue(ticket, fieldName) ==
    CASE fieldName = "summary" -> ticket.summary
      [] fieldName = "description" -> ticket.description
      [] fieldName = "priority" -> ticket.priority
      [] fieldName = "status" -> ticket.status
      [] fieldName = "assignee" ->
            IF ticket.assignee = Unset THEN "Unassigned" ELSE ticket.assignee
      [] fieldName = "reporter" -> ticket.reporter
      [] OTHER -> ""

\* one generateText call of validateSpecificFields, as the prompt states it
FieldCall(ticket, fieldName) ==
    [field |-> fieldName, value |-> getFieldValue(ticket, fieldName),
     previous |-> LET previousHistory == getTicketHistory(ServerHistory, ticket.key)
                  IN  IF previousHistory = <<>> THEN <<>>
                      ELSE Find(previousHistory[1].fieldResults, fieldName)]

\* the try/catch around JSON.parse(text) in validateSpecificFields
FieldResult(fieldName, out, now) ==
    IF out.kind = "json"
    THEN [field |-> fieldName, isValid |-> "undefined", score |-> out.score,
          issues |-> out.issues, suggestions |-> out.suggestions, lastValidated |-> now]
    ELSE [field |-> fieldName, isValid |-> "undefined", score |-> 0,
          issues |-> <<"Failed to analyze " \o fieldName \o " field">>,
          suggestions |-> <<"Re-validate " \o fieldName \o " field">>,
          lastValidated |-> now]

\* validateSpecificFields asking the model about every field of the ticket
\* and keeping the answers for fieldsToValidate
validateSpecificFieldsEveryField(ticket, fieldsToValidate, outs, now) ==
    LET fieldResults ==
            [i \in 1..Len(fieldsToValidate) |->
                FieldResult(fieldsToValidate[i], outs[i], now)]
        calls == [i \in 1..Len(FieldNames) |-> FieldCall(ticket, FieldNames[i])]
        thrown == \E i \in 1..Len(fieldsToValidate) : outs[i].kind = "throw"
    IN  [thrown |-> thrown,
         calls |-> calls,
         body |-> IF thrown THEN <<>>
                  ELSE << [ticket |-> ticket,
                           score |-> MathFloorMean(fieldResults),
                           issues |-> FlatMap(fieldResults, "issues"),
                           suggestions |-> FlatMap(fieldResults, "suggestions"),
                           fieldResults |-> fieldResults,
                           validationType |-> "field-specific"] >>]

\* validateSpecificFields: outs[i] is what happens to fieldsToValidate[i];
\* a generateText that throws rejects the Promise.all and so the whole call
validateSpecificFields(ticket, fieldsToValidate, outs, now) ==
    LET fieldResults ==
            [i \in 1..Len(fieldsToValidate) |->
                FieldResult(fieldsToValidate[i], outs[i], now)]
        calls == [i \in 1..Len(fieldsToValidate) |-> FieldCall(ticket, fieldsToValidate[i])]
        thrown == \E i \in 1..Len(fieldsToValidate) : outs[i].kind = "throw"
    IN  [thrown |-> thrown,
         calls |-> calls,
         body |-> IF thrown THEN <<>>
                  ELSE << [ticket |-> ticket,
                           score |-> MathFloorMean(fieldResults),
                           issues |-> FlatMap(fieldResults, "issues"),
                           suggestions |-> FlatMap(fieldResults, "suggestions"),
                           fieldResults |-> fieldResults,
                           validationType |-> "field-specific"] >>]

\* the five fields the prompt of validateFullTicket names
PromptFields == SubSeq(FieldNames, 1, 5)

\* one field result as the language model writes it: lastValidated is its own text
LlmFieldResult(f, isValid, score) ==
    [field |-> f, isValid |-> isValid, score |-> score,
     issues |-> IF score < 7 THEN <<"issue">> ELSE <<>>,
     suggestions |-> IF score < 7 THEN <<"fix">> ELSE <<>>,
     lastValidated |-> 0]

\* what generateText and JSON.parse can do for a full-ticket analysis: the call
\* throws, the text is no JSON, or it is one of three analyses:
\*   every field of the ticket, each valid with score 8, overall 8;
\*   the five fields of the prompt, isValid left out as in the prompt, overall 8;
\*   every field, the first invalid with score 5, overall 5
FullOutcomes ==
    {[kind |-> "throw", score |-> 0, fieldResults |-> <<>>],
     [kind |-> "unparsable", score |-> 0, fieldResults |-> <<>>],
     [kind |-> "json", score |-> 8,
      fieldResults |-> [i \in 1..Len(FieldNames) |-> LlmFieldResult(FieldNames[i], "true", 8)]],
     [kind |-> "json", score |-> 8,
      fieldResults |-> [i \in 1..Len(PromptFields) |->
                           LlmFieldResult(PromptFields[i], "undefined", 8)]],
     [kind |-> "json", score |-> 5,
      fieldResults |-> [i \in 1..Len(FieldNames) |->
                           IF i = 1 THEN LlmFieldResult(FieldNames[i], "false", 5)
                           ELSE LlmFieldResult(FieldNames[i], "true", 8)]]}

\* validateFullTicket
validateFullTicket(ticket, out) ==
    [thrown |-> out.kind = "throw",
     calls |-> << [field |-> "*", value |-> "", previous |-> <<>>] >>,
     body |-> CASE out.kind = "throw" -> <<>>
                [] out.kind = "json" ->
                     << [ticket |-> ticket, score |-> out.score,
                         issues |-> <<>>, suggestions |-> <<>>,
                         fieldResults |-> out.fieldResults,
                         validationType |-> "full"] >>
                [] OTHER ->
                     << [ticket |-> ticket, score |-> 0,
                         issues |-> <<"Failed to analyze ticket - please try again">>,
                         suggestions |-> <<"Re-run validation to get proper analysis">>,
                         fieldResults |-> <<>>,
                         validationType |-> "full"] >>]

\* POST for one ticket.  fieldsToValidate is <<>> when the body has none and
\* <<list>> otherwise: an empty array is truthy and an array.  A rejected
\* Promise.all is caught and answered with status 500.
POST(ticket, fieldsToValidate, outs, out, now) ==
    LET isFieldSpecific == fieldsToValidate # <<>>
        run == IF isFieldSpecific
               THEN validateSpecificFields(ticket, fieldsToValidate[1], outs, now)
               ELSE validateFullTicket(ticket, out)
    IN  [status |-> IF run.thrown THEN "500" ELSE "200",
         calls |-> run.calls,
         body |-> run.body]

-----------------------------------------------------------------------------
(* The page: results handed to the caller *)

\* the changedFields literal of the two full-validation branches
FullChangedFields == <<"summary", "description", "priority", "status", "assignee">>

\* validateTickets, the `changedFields.length === 0` branch; also the fallback
\* of refreshAndRevalidateSingleTicket
CachedResult(ticket, previousHistory) ==
    [ticket |-> ticket,
     score |-> MathFloorMean(previousHistory.fieldResults),
     issues |-> FlatMap(previousHistory.fieldResults, "issues"),
     suggestions |-> FlatMap(previousHistory.fieldResults, "suggestions"),
     fieldResults |-> previousHistory.fieldResults,
     validationType |-> "cached",
     changedFields |-> <<>>,
     cachedFields |-> Fields(previousHistory.fieldResults)]

\* refreshAndRevalidateSingleTicket, `if (existingResult)`: the result on
\* display is kept and relabelled
KeptResult(existingResult, latestTicket, previousHistory) ==
    [existingResult EXCEPT
        !.ticket = latestTicket,
        !.validationType = "cached",
        !.changedFields = <<>>,
        !.cachedFields = Fields(previousHistory.fieldResults)]

\* the result after a merge with cachedFields left unfiltered: every field of
\* the previous entry is listed as reused
PartialResultListingAll(ticket, previousHistory, changedFields, mergedFieldResults) ==
    [ticket |-> ticket,
     score |-> MathFloorMean(mergedFieldResults),
     issues |-> FlatMap(mergedFieldResults, "issues"),
     suggestions |-> FlatMap(mergedFieldResults, "suggestions"),
     fieldResults |-> mergedFieldResults,
     validationType |-> "partial",
     changedFields |-> changedFields,
     cachedFields |-> Fields(previousHistory.fieldResults)]

\* the result built after a merge, in both entry points
PartialResult(ticket, previousHistory, changedFields, mergedFieldResults) ==
    [ticket |-> ticket,
     score |-> MathFloorMean(mergedFieldResults),
     issues |-> FlatMap(mergedFieldResults, "issues"),
     suggestions |-> FlatMap(mergedFieldResults, "suggestions"),
     fieldResults |-> mergedFieldResults,
     validationType |-> "partial",
     changedFields |-> changedFields,
     cachedFields |-> Fields(SelectSeq(previousHistory.fieldResults,
                                LAMBDA f : f.field \notin Range(changedFields)))]

\* validateTickets, first-time branch: { ...result, score: overallScore, ... }
FullResultBatch(result) ==
    [ticket |-> result.ticket,
     score |-> MathFloorMean(result.fieldResults),
     issues |-> result.issues,
     suggestions |-> result.suggestions,
     fieldResults |-> result.fieldResults,
     validationType |-> "full",
     changedFields |-> FullChangedFields,
     cachedFields |-> <<>>]

\* refreshAndRevalidateSingleTicket, first-time branch: { ...validationData[0], ... }
FullResultSingle(result) ==
    [ticket |-> result.ticket,
     score |-> result.score,
     issues |-> result.issues,
     suggestions |-> result.suggestions,
     fieldResults |-> result.fieldResults,
     validationType |-> "full",
     changedFields |-> FullChangedFields,
     cachedFields |-> <<>>]

\* validationResults.find((r) => r.ticket.key === ticketKey)
FindResult(results, ticketKey) ==
    LET hits == SelectSeq(results, LAMBDA r : r.ticket.key = ticketKey)
    IN  IF hits = <<>> THEN <<>> ELSE <<Head(hits)>>

\* the updater passed to setValidationResults by refreshAndRevalidateSingleTicket
PutResult(prevResults, ticketKey, newResult) ==
    LET hit == {i \in 1..Len(prevResults) : prevResults[i].ticket.key = ticketKey}
    IN  IF hit # {}
        THEN [prevResults EXCEPT ![CHOOSE i \in hit : \A j \in hit : i <= j] = newResult]
        ELSE Append(prevResults, newResult)

-----------------------------------------------------------------------------
(* Requests.  The locals of an async function live across its awaits:
     pc        "jira" (awaiting /api/jira/tickets), "validate" (awaiting
               /api/validate-tickets) or "resolved" (returned, Promise.all
               still waiting for the other tickets)
     live      a task of the validateTickets call whose Promise.all is pending
     closure   the validationResults the useCallback closure captured
     first     the snapshot Clear History removed, when this request is the
               first to read the store for the ticket since
     after     the request that had returned last when this one started *)

NoTicket == <<>>

RetId == IF ret = <<>> THEN 0 ELSE ret[Len(ret)].id

\* what a request reports when it returns (outcome "result") or throws ("error")
Returned(id, r, outcome, result, calls, wrote) ==
    [id |-> id, kind |-> r.kind, key |-> r.key, live |-> r.live, outcome |-> outcome,
     snapshot |-> r.snapshot, prev |-> r.prev, changed |-> r.changed,
     closure |-> r.closure, after |-> r.after, first |-> r.first,
     result |-> result, calls |-> calls, wrote |-> wrote, cleared |-> FALSE]

\* the synchronous head of one validateTickets task, up to its first await
TaskHead(ticket, h, after) ==
    LET currentSnapshot == createTicketSnapshot(ticket)
        previousHistory == getTicketHistory(h, ticket.key)
        changedFields == IF previousHistory = <<>> THEN <<>>
                         ELSE detectChangedFields(currentSnapshot, previousHistory[1].snapshot)
        hit == previousHistory # <<>> /\ Len(changedFields) = 0
    IN  [kind |-> "batch", key |-> ticket.key,
         pc |-> IF hit THEN "resolved" ELSE "validate",
         live |-> TRUE, ticket |-> <<ticket>>, snapshot |-> <<currentSnapshot>>,
         prev |-> previousHistory, changed |-> changedFields, closure |-> <<>>,
         after |-> after, first |-> dropped[ticket.key],
         result |-> IF hit THEN <<CachedResult(ticket, previousHistory[1])>> ELSE <<>>]

LiveIds(rq) == {i \in DOMAIN rq : rq[i].live}
Restrict(f, S) == [x \in S |-> f[x]]

\* ids in increasing order: the order of ticketsToValidate
RECURSIVE Ascending(_)
Ascending(S) ==
    IF S = {} THEN <<>>
    ELSE LET m == CHOOSE i \in S : \A j \in S : i <= j
         IN  <<m>> \o Ascending(S \ {m})

\* Promise.all resolved: setValidationResults(validationResults), finally
BatchResults(rq) ==
    LET ids == Ascending(LiveIds(rq))
    IN  [i \in 1..Len(ids) |-> rq[ids[i]].result[1]]

TicketKeys == {tickets[i].key : i \in 1..Len(tickets)}

\* validateTickets, from the click to the first await of every task; when every
\* task returned from the cache the Promise.all is already resolved
ValidateTickets(sel) ==
    /\ ~isLoading
    /\ sel # {} /\ sel \subseteq TicketKeys
    /\ nreq + Cardinality(sel) <= MaxRequests
    /\ LET ticketsToValidate == SelectSeq(tickets, LAMBDA t : t.key \in sel)
           n == Len(ticketsToValidate)
           started == [i \in (nreq + 1)..(nreq + n) |->
                          TaskHead(ticketsToValidate[i - nreq], history, RetId)]
           rq == [i \in DOMAIN reqs \cup DOMAIN started |->
                     IF i \in DOMAIN started THEN started[i] ELSE reqs[i]]
           hits == SelectSeq(Ascending(DOMAIN started), LAMBDA i : started[i].pc = "resolved")
           returned == [j \in 1..Len(hits) |->
                          Returned(hits[j], started[hits[j]], "result",
                                   started[hits[j]].result, <<>>, FALSE)]
           allDone == \A i \in DOMAIN started : started[i].pc = "resolved"
       IN  /\ nreq' = nreq + n
           /\ error' = ""
           /\ ret' = IF hits = <<>> THEN ret ELSE returned
           /\ IF allDone
              THEN /\ validationResults' = BatchResults(rq)
                   /\ isLoading' = FALSE
                   /\ reqs' = reqs
              ELSE /\ isLoading' = TRUE
                   /\ reqs' = rq
                   /\ UNCHANGED validationResults
    /\ dropped' = [k \in Keys |-> IF k \in sel THEN <<>> ELSE dropped[k]]
    /\ UNCHANGED <<jira, edits, tickets, revalidatingTicketKey, fetching, history, clock, fn>>

\* the body of the /api/validate-tickets response for request r
ServerResponses(r) ==
    IF r.prev = <<>>
    THEN {validateFullTicket(r.ticket[1], out) : out \in FullOutcomes}
    ELSE {validateSpecificFields(r.ticket[1], r.changed, outs, clock) :
            outs \in [1..Len(r.changed) -> FieldOutcomes]}

\* the tail of a task that stores only the fresh results of a partial
\* revalidation and returns the merge
TaskTailStoringFresh(r, body) ==
    IF r.prev = <<>>
    THEN [fieldResults |-> body.fieldResults,
          result |-> FullResultBatch(body)]
    ELSE [fieldResults |-> body.fieldResults,
          result |-> PartialResult(r.ticket[1], r.prev[1], r.changed,
                        mergeValidationResults(r.prev[1].fieldResults, body.fieldResults,
                                               r.changed))]

\* the tail of a task after `await response.json()`: merge, store, result
TaskTail(r, body) ==
    IF r.prev = <<>>
    THEN [fieldResults |-> body.fieldResults,
          result |-> FullResultBatch(body)]
    ELSE LET mergedFieldResults ==
                 mergeValidationResults(r.prev[1].fieldResults, body.fieldResults, r.changed)
         IN  [fieldResults |-> mergedFieldResults,
              result |-> PartialResult(r.ticket[1], r.prev[1], r.changed, mergedFieldResults)]

\* a validateTickets task gets its response.  A failed response throws: the
\* Promise.all rejects, the catch reports, finally clears isLoading and the
\* other tasks run on unobserved.
TaskResponse(id, resp) ==
    /\ id \in DOMAIN reqs
    /\ reqs[id].kind = "batch" /\ reqs[id].pc = "validate"
    /\ resp \in ServerResponses(reqs[id])
    /\ LET r == reqs[id]
           others == DOMAIN reqs \ {id}
       IN  IF resp.thrown
           THEN /\ ret' = <<Returned(id, r, "error", <<>>, resp.calls, FALSE)>>
                /\ IF r.live
                   THEN /\ error' = IF r.prev = <<>> THEN "Failed to validate tickets"
                                    ELSE "Failed to validate changed fields"
                        /\ isLoading' = FALSE
                        /\ reqs' = [i \in {j \in others : reqs[j].pc # "resolved" \/ ~reqs[j].live} |->
                                       [reqs[i] EXCEPT !.live = FALSE]]
                   ELSE /\ reqs' = Restrict(reqs, others)
                        /\ UNCHANGED <<error, isLoading>>
                /\ UNCHANGED <<validationResults, history, clock>>
           ELSE LET tail == TaskTail(r, resp.body[1])
                    done == [r EXCEPT !.pc = "resolved", !.result = <<tail.result>>]
                    rq == [reqs EXCEPT ![id] = done]
                IN  /\ history' = updateTicketHistory(history, r.key, r.snapshot[1],
                                                      tail.fieldResults, clock + 1)
                    /\ clock' = clock + 1
                    /\ ret' = <<Returned(id, r, "result", <<tail.result>>, resp.calls, TRUE)>>
                    /\ IF r.live
                       THEN IF \A i \in LiveIds(rq) : rq[i].pc = "resolved"
                            THEN /\ validationResults' = BatchResults(rq)
                                 /\ isLoading' = FALSE
                                 /\ reqs' = Restrict(reqs, DOMAIN reqs \ LiveIds(rq))
                            ELSE /\ reqs' = rq
                                 /\ UNCHANGED <<validationResults, isLoading>>
                       ELSE /\ reqs' = Restrict(reqs, others)
                            /\ UNCHANGED <<validationResults, isLoading>>
                    /\ UNCHANGED error
    /\ UNCHANGED <<jira, edits, tickets, revalidatingTicketKey, fetching, nreq, fn, dropped>>

\* refreshAndRevalidateSingleTicket, from the click to the await of the Jira
\* fetch.  The button belongs to a displayed result and is disabled while
\* revalidatingTicketKey is its key or isLoading is set.
Refresh(ticketKey) ==
    /\ FindResult(validationResults, ticketKey) # <<>>
    /\ revalidatingTicketKey # <<ticketKey>>
    /\ ~isLoading
    /\ nreq < MaxRequests
    /\ nreq' = nreq + 1
    /\ reqs' = [i \in DOMAIN reqs \cup {nreq + 1} |->
                  IF i = nreq + 1
                  THEN [kind |-> "single", key |-> ticketKey, pc |-> "jira", live |-> FALSE,
                        ticket |-> NoTicket, snapshot |-> <<>>, prev |-> <<>>,
                        changed |-> <<>>, closure |-> validationResults,
                        after |-> RetId, first |-> <<>>, result |-> <<>>]
                  ELSE reqs[i]]
    /\ revalidatingTicketKey' = <<ticketKey>>
    /\ error' = ""
    /\ UNCHANGED <<jira, edits, tickets, validationResults, isLoading, fetching,
                   history, clock, ret, fn, dropped>>

\* a catch that also discards the entry of the ticket whose refresh failed
RefreshThrowsDropping(id, r, calls) ==
    /\ error' = "Failed to re-validate ticket"
    /\ revalidatingTicketKey' = <<>>
    /\ reqs' = Restrict(reqs, DOMAIN reqs \ {id})
    /\ ret' = <<Returned(id, r, "error", <<>>, calls, FALSE)>>
    /\ history' = SelectSeq(history, LAMBDA e : e.ticketKey # r.key)
    /\ UNCHANGED <<validationResults, clock>>

\* a catch without the finally: the busy flag of the refresh stays set
RefreshThrowsKeepingFlag(id, r, calls) ==
    /\ error' = "Failed to re-validate ticket"
    /\ reqs' = Restrict(reqs, DOMAIN reqs \ {id})
    /\ ret' = <<Returned(id, r, "error", <<>>, calls, FALSE)>>
    /\ UNCHANGED <<validationResults, revalidatingTicketKey, history, clock>>

\* the catch and finally of refreshAndRevalidateSingleTicket
RefreshThrows(id, r, calls) ==
    /\ error' = "Failed to re-validate ticket"
    /\ revalidatingTicketKey' = <<>>
    /\ reqs' = Restrict(reqs, DOMAIN reqs \ {id})
    /\ ret' = <<Returned(id, r, "error", <<>>, calls, FALSE)>>
    /\ UNCHANGED <<validationResults, history, clock>>

\* the end of the try block and finally of refreshAndRevalidateSingleTicket
RefreshReturns(id, r, newResult, calls, wrote) ==
    /\ validationResults' = PutResult(validationResults, r.key, newResult)
    /\ revalidatingTicketKey' = <<>>
    /\ reqs' = Restrict(reqs, DOMAIN reqs \ {id})
    /\ ret' = <<Returned(id, r, "result", <<newResult>>, calls, wrote)>>
    /\ UNCHANGED error

\* the Jira response arrives: snapshot, history lookup, comparison; the cached
\* branch returns at once, the others await the validator
RefreshJira(id, ok) ==
    /\ id \in DOMAIN reqs
    /\ reqs[id].kind = "single" /\ reqs[id].pc = "jira"
    /\ LET r == reqs[id]
           latestTicket == jira[r.key]
           currentSnapshot == createTicketSnapshot(latestTicket)
           previousHistory == getTicketHistory(history, r.key)
           changedFields == IF previousHistory = <<>> THEN <<>>
                            ELSE detectChangedFields(currentSnapshot, previousHistory[1].snapshot)
           read == [r EXCEPT !.ticket = <<latestTicket>>, !.snapshot = <<currentSnapshot>>,
                             !.prev = previousHistory, !.changed = changedFields,
                             !.first = dropped[r.key]]
           existingResult == FindResult(r.closure, r.key)
       IN  IF ~ok
           THEN RefreshThrows(id, r, <<>>)
           ELSE IF previousHistory # <<>> /\ Len(changedFields) = 0
                THEN /\ RefreshReturns(id, read,
                            IF existingResult # <<>>
                            THEN KeptResult(existingResult[1], latestTicket, previousHistory[1])
                            ELSE CachedResult(latestTicket, previousHistory[1]),
                            <<>>, FALSE)
                     /\ UNCHANGED <<history, clock>>
                ELSE /\ reqs' = [reqs EXCEPT ![id] = [read EXCEPT !.pc = "validate"]]
                     /\ UNCHANGED <<validationResults, revalidatingTicketKey, error,
                                    history, clock, ret>>
    /\ dropped' = IF ok THEN [dropped EXCEPT ![reqs[id].key] = <<>>] ELSE dropped
    /\ UNCHANGED <<jira, edits, tickets, isLoading, fetching, nreq, fn>>

\* the validator's response arrives
RefreshValidate(id, resp) ==
    /\ id \in DOMAIN reqs
    /\ reqs[id].kind = "single" /\ reqs[id].pc = "validate"
    /\ resp \in ServerResponses(reqs[id])
    /\ LET r == reqs[id]
       IN  IF resp.thrown
           THEN RefreshThrows(id, r, resp.calls)
           ELSE IF r.prev = <<>>
                THEN LET newResult == FullResultSingle(resp.body[1])
                     IN  /\ history' = updateTicketHistory(history, r.key, r.snapshot[1],
                                                           newResult.fieldResults, clock + 1)
                         /\ clock' = clock + 1
                         /\ RefreshReturns(id, r, newResult, resp.calls, TRUE)
                ELSE LET mergedFieldResults ==
                             mergeValidationResults(r.prev[1].fieldResults,
                                                    resp.body[1].fieldResults, r.changed)
                     IN  /\ history' = updateTicketHistory(history, r.key, r.snapshot[1],
                                                           mergedFieldResults, clock + 1)
                         /\ clock' = clock + 1
                         /\ RefreshReturns(id, r,
                                PartialResult(r.ticket[1], r.prev[1], r.changed,
                                              mergedFieldResults),
                                resp.calls, TRUE)
    /\ UNCHANGED <<jira, edits, tickets, isLoading, fetching, nreq, fn, dropped>>

\* the Clear History button
ClearHistory ==
    /\ history # <<>>
    /\ history' = clearHistory(history)
    /\ ret' = [i \in 1..Len(ret) |-> [ret[i] EXCEPT !.cleared = TRUE]]
    /\ dropped' = [k \in Keys |->
                      LET entry == getTicketHistory(history, k)
                      IN  IF entry # <<>> THEN <<entry[1].snapshot>> ELSE dropped[k]]
    /\ UNCHANGED <<jira, edits, tickets, validationResults, isLoading,
                   revalidatingTicketKey, error, fetching, clock, reqs, nreq, fn>>

\* fetchTickets, from the click to the await
FetchStart ==
    /\ ~isLoading
    /\ isLoading' = TRUE
    /\ fetching' = TRUE
    /\ error' = ""
    /\ validationResults' = <<>>
    /\ UNCHANGED <<jira, edits, tickets, revalidatingTicketKey, history, clock,
                   reqs, nreq, ret, fn, dropped>>

\* fetchTickets after the await: the tickets as the tracker has them, or the catch
FetchDone(ok) ==
    /\ fetching
    /\ fetching' = FALSE
    /\ isLoading' = FALSE
    /\ IF ok
       THEN /\ tickets' = [i \in 1..Len(KeyOrder) |-> jira[KeyOrder[i]]]
            /\ UNCHANGED error
       ELSE /\ error' = "Failed to fetch tickets"
            /\ UNCHANGED tickets
    /\ UNCHANGED <<jira, edits, validationResults, revalidatingTicketKey, history,
                   clock, reqs, nreq, ret, fn, dropped>>

\* somebody edits one property of a ticket in the issue tracker
EditTicket(k, f, v) ==
    /\ edits < MaxEdits
    /\ jira[k][f] # v
    /\ jira' = [jira EXCEPT ![k][f] = v]
    /\ edits' = edits + 1
    /\ UNCHANGED <<tickets, validationResults, isLoading, revalidatingTicketKey, error,
                   fetching, history, clock, reqs, nreq, ret, fn, dropped>>

\* the requests of one entry point that await /api/validate-tickets
Awaiting(kind) == {id \in DOMAIN reqs : reqs[id].kind = kind /\ reqs[id].pc = "validate"}

\* the properties edited in the tracker: a field of the prompt, the optional
\* one, the one the prompt leaves out, and the one the comparison leaves out
EditableFields == {"description", "assignee", "reporter", "created"}

NoFn == [op |-> "none"]

\* the page after construction, the tracker and an empty localStorage
Idle ==
    /\ jira = [k \in Keys |->
                 [key |-> k, summary |-> "a", description |-> "a", priority |-> "a",
                  status |-> "a", assignee |-> "a", reporter |-> "a", created |-> "a"]]
    /\ edits = 0
    /\ tickets = <<>>
    /\ validationResults = <<>>
    /\ isLoading = FALSE
    /\ revalidatingTicketKey = <<>>
    /\ error = ""
    /\ fetching = FALSE
    /\ history = <<>>
    /\ clock = 0
    /\ reqs = <<>>
    /\ nreq = 0
    /\ ret = <<>>
    /\ dropped = [k \in Keys |-> <<>>]

Init == Idle /\ fn = NoFn

FetchResponds == \E ok \in BOOLEAN : FetchDone(ok)
UserValidates == \E sel \in SUBSET Keys : ValidateTickets(sel)
TaskResponds ==
    \E id \in Awaiting("batch") : \E resp \in ServerResponses(reqs[id]) : TaskResponse(id, resp)
UserRefreshes == \E k \in Keys : Refresh(k)
JiraResponds == \E id \in DOMAIN reqs : \E ok \in BOOLEAN : RefreshJira(id, ok)
ValidatorResponds ==
    \E id \in Awaiting("single") : \E resp \in ServerResponses(reqs[id]) :
        RefreshValidate(id, resp)
TrackerEdit ==
    \E k \in Keys : \E f \in EditableFields : \E v \in EditValues(f) : EditTicket(k, f, v)

Next ==
    \/ FetchStart
    \/ FetchResponds
    \/ UserValidates
    \/ TaskResponds
    \/ UserRefreshes
    \/ JiraResponds
    \/ ValidatorResponds
    \/ ClearHistory
    \/ TrackerEdit

Spec == Init /\ [][Next]_vars

\* the same page when nobody presses Clear History
NextKeepingHistory ==
    \/ FetchStart
    \/ FetchResponds
    \/ UserValidates
    \/ TaskResponds
    \/ UserRefreshes
    \/ JiraResponds
    \/ ValidatorResponds
    \/ TrackerEdit

SpecKeepingHistory == Init /\ [][NextKeepingHistory]_vars

-----------------------------------------------------------------------------
(* detectChangedFields alone: every pair of snapshots, then the call *)

SpecCmpInit ==
    /\ Idle
    /\ fn \in [op : {"detectChangedFields"}, current : Snapshots, previous : Snapshots,
               out : {<<>>}, done : {FALSE}]

CallDetectChangedFields ==
    /\ fn.op = "detectChangedFields" /\ ~fn.done
    /\ fn' = [fn EXCEPT !.out = detectChangedFields(fn.current, fn.previous), !.done = TRUE]
    /\ UNCHANGED <<jira, edits, tickets, validationResults, isLoading, revalidatingTicketKey,
                   error, fetching, history, clock, reqs, nreq, ret, dropped>>

SpecCmpNext == CallDetectChangedFields

SpecCmp == SpecCmpInit /\ [][SpecCmpNext]_vars

\* C7: detectChangedFields returns, once each, exactly the fields among summary,
\* description, priority, status, assignee, reporter whose values differ (an unset
\* assignee differs from every text): nothing iff the six agree, one name when one
\* differs; key and created never count.
C7_DetectExact ==
    (fn.op = "detectChangedFields" /\ fn.done) =>
        LET differing == {f \in FieldSet : fn.current[f] # fn.previous[f]}
        IN  /\ Range(fn.out) = differing
            /\ Len(fn.out) = Cardinality(differing)
            /\ (fn.out = <<>>) <=> (\A f \in FieldSet : fn.current[f] = fn.previous[f])
            /\ (fn.current = fn.previous) => fn.out = <<>>

\* the assignee was removed, key and created differ too: only assignee is reported
C7_Witness ==
    /\ fn.op = "detectChangedFields" /\ fn.done
    /\ fn.previous.assignee = "a" /\ fn.current.assignee = Unset
    /\ fn.current.key # fn.previous.key
    /\ fn.current.created # fn.previous.created
    /\ fn.out = <<"assignee">>

-----------------------------------------------------------------------------
(* mergeValidationResults alone: lists up to MaxMergeLen, then the call *)

MergeNames == {"summary", "description", "reporter"}

\* previous results score 5 or 8, fresh ones 6 or 9: an entry shows its origin
MergeEntry(f, score) ==
    [field |-> f, isValid |-> "undefined", score |-> score,
     issues |-> <<>>, suggestions |-> <<>>, lastValidated |-> 0]

SeqsUpTo(S, n) == UNION {[1..m -> S] : m \in 0..n}

\* the orders of the subsets of MergeNames
ChangedLists == {c \in SeqsUpTo(MergeNames, Cardinality(MergeNames)) :
                    \A i, j \in 1..Len(c) : c[i] = c[j] => i = j}

SpecMergeInit ==
    /\ Idle
    /\ fn \in [op : {"mergeValidationResults"},
               previousResults : SeqsUpTo({MergeEntry(f, sc) : f \in MergeNames, sc \in {5, 8}},
                                          MaxMergeLen),
               newResults : SeqsUpTo({MergeEntry(f, sc) : f \in MergeNames, sc \in {6, 9}},
                                     MaxMergeLen),
               changedFields : ChangedLists,
               out : {<<>>}, done : {FALSE}]

CallMergeValidationResults ==
    /\ fn.op = "mergeValidationResults" /\ ~fn.done
    /\ fn' = [fn EXCEPT !.out = mergeValidationResults(fn.previousResults, fn.newResults,
                                                       fn.changedFields),
                        !.done = TRUE]
    /\ UNCHANGED <<jira, edits, tickets, validationResults, isLoading, revalidatingTicketKey,
                   error, fetching, history, clock, reqs, nreq, ret, dropped>>

SpecMergeNext == CallMergeValidationResults

SpecMerge == SpecMergeInit /\ [][SpecMergeNext]_vars

MergeDone == fn.op = "mergeValidationResults" /\ fn.done

\* the entries of P whose field name did not occur earlier in P, in P's order
FirstEntries(P) ==
    LET firsts == {i \in 1..Len(P) : \A j \in 1..(i - 1) : P[j].field # P[i].field}
    IN  [n \in 1..Cardinality(firsts) |->
            P[CHOOSE i \in firsts : Cardinality({j \in firsts : j <= i}) = n]]

\* C8 as stated: mergeValidationResults(P, F, []) = P for every P and F, also
\* when P repeats a field name.
C8_MergePurityAnyP ==
    (MergeDone /\ fn.changedFields = <<>>) => fn.out = fn.previousResults

\* C8 amended: with no changed field the merge returns, for every P and F, the
\* first entry of each field name of P in P's order: P itself when P repeats no
\* field name, whatever fields F holds.
C8_MergePurity ==
    (MergeDone /\ fn.changedFields = <<>>) =>
        /\ fn.out = FirstEntries(fn.previousResults)
        /\ (Cardinality(Range(Fields(fn.previousResults))) = Len(fn.previousResults)
                => fn.out = fn.previousResults)

\* no changed field, F names a field P lacks, P has two fields: P comes back
C8_Witness ==
    /\ MergeDone /\ fn.changedFields = <<>>
    /\ Len(fn.previousResults) = 2
    /\ fn.previousResults[1].field # fn.previousResults[2].field
    /\ \E i \in 1..Len(fn.newResults) :
            fn.newResults[i].field \notin Range(Fields(fn.previousResults))
    /\ fn.out = fn.previousResults

\* C9: for every field name of P or F the merged list holds F's entry when the
\* name is changed (nothing when F has none) and P's entry otherwise (F's entry
\* for an unchanged field is never used); it holds nothing else.
C9_MergeSelects ==
    MergeDone =>
        LET names == Range(Fields(fn.previousResults)) \cup Range(Fields(fn.newResults))
        IN  /\ \A n \in names :
                  SelectSeq(fn.out, LAMBDA r : r.field = n) =
                      IF n \in Range(fn.changedFields)
                      THEN Find(fn.newResults, n)
                      ELSE Find(fn.previousResults, n)
            /\ \A i \in 1..Len(fn.out) : fn.out[i].field \in names

\* summary changed and fresh, description changed without a fresh result,
\* reporter fresh but unchanged: only the fresh summary is in the output
C9_Witness ==
    /\ MergeDone
    /\ Fields(fn.previousResults) = <<"summary", "description">>
    /\ Fields(fn.newResults) = <<"summary", "reporter">>
    /\ Range(fn.changedFields) = {"summary", "description"}
    /\ fn.out = <<fn.newResults[1]>>

-----------------------------------------------------------------------------
(* Claims about the requests *)

\* the requests of the latest returning step that handed a result to their caller
Results == {i \in 1..Len(ret) : ret[i].outcome = "result"}

\* the compared fields in which the snapshot of a request differs from the
\* snapshot of the entry it read
Differing(r) == {f \in FieldSet : r.snapshot[1][f] # r.prev[1].snapshot[f]}

\* C1: a request that returns a result is tagged by what it read from the cache:
\* full iff there was no entry for the key, cached iff there was one and no
\* compared field differs, partial iff there was one and some compared field
\* differs; the tag is one of the three.
C1_TagByCacheState ==
    \A i \in Results :
        LET r == ret[i]
            tag == r.result[1].validationType
        IN  /\ tag \in {"full", "cached", "partial"}
            /\ (tag = "full") <=> (r.prev = <<>>)
            /\ (tag = "cached") <=> (r.prev # <<>> /\ Differing(r) = {})
            /\ (tag = "partial") <=> (r.prev # <<>> /\ Differing(r) # {})

\* a refresh found only the reporter changed and returned a partial result
C1_Witness ==
    \E i \in Results :
        /\ ret[i].kind = "single"
        /\ ret[i].prev # <<>>
        /\ Differing(ret[i]) = {"reporter"}
        /\ ret[i].result[1].validationType = "partial"

\* C2: with an entry for the key and no compared field changed, the request
\* returns the entry's field results tagged cached, calls no validator and
\* writes nothing to the store.
C2_CachedReturnsEntry ==
    \A i \in Results :
        (ret[i].prev # <<>> /\ Differing(ret[i]) = {}) =>
            /\ ret[i].result[1].validationType = "cached"
            /\ ret[i].result[1].fieldResults = ret[i].prev[1].fieldResults
            /\ ret[i].calls = <<>>
            /\ ~ret[i].wrote

\* the compared fields agree
SameContent(s, t) == \A f \in FieldSet : s[f] = t[f]

\* C3: a request for a ticket that starts after the previous request for it has
\* returned, with the same snapshot, nothing returned and no clearHistory in
\* between, returns cached with the score and the field results of that previous
\* request and calls no validator, whichever entry points the two came through.
C3_Idempotent ==
    [][\A i \in 1..Len(ret') : \A j \in Results :
          ( /\ ret'[i].outcome = "result"
            /\ \A m \in 1..Len(ret) : ret[m].id # ret'[i].id
            /\ ret'[i].after = RetId
            /\ ret[j].key = ret'[i].key
            /\ ~ret[j].cleared
            /\ SameContent(ret'[i].snapshot[1], ret[j].snapshot[1]) )
          => /\ ret'[i].result[1].validationType = "cached"
             /\ ret'[i].result[1].score = ret[j].result[1].score
             /\ ret'[i].result[1].fieldResults = ret[j].result[1].fieldResults
             /\ ret'[i].calls = <<>>]_vars

\* C4: read entry, compare, call validator, merge, write is atomic per ticket
\* key: a request that writes a merge replaces the entry the merge was computed
\* from, never an entry that another request stored after that read.
C4_NoStaleWrite ==
    [][\A id \in DOMAIN reqs :
          ( /\ reqs[id].pc = "validate"
            /\ reqs[id].prev # <<>>
            /\ ret' # ret
            /\ ret'[1].id = id
            /\ ret'[1].wrote
            /\ getTicketHistory(history, reqs[id].key) # <<>> )
          => getTicketHistory(history, reqs[id].key) = reqs[id].prev]_vars

\* C5: with an entry and a non-empty set of changed fields the validator is
\* called once for each changed field and for no other field.
C5_CallsAreChangedFields ==
    \A i \in 1..Len(ret) :
        (ret[i].prev # <<>> /\ Differing(ret[i]) # {}) =>
            /\ Range(Fields(ret[i].calls)) = Differing(ret[i])
            /\ Len(ret[i].calls) = Cardinality(Differing(ret[i]))
            /\ \A c \in 1..Len(ret[i].calls) :
                  ret[i].calls[c].value =
                      getFieldValue(ret[i].snapshot[1], ret[i].calls[c].field)

\* a batch task revalidated exactly the description, the one field that changed
C5_Witness ==
    \E i \in Results :
        /\ ret[i].kind = "batch"
        /\ ret[i].prev # <<>>
        /\ Differing(ret[i]) = {"description"}
        /\ Fields(ret[i].calls) = <<"description">>
        /\ ret[i].result[1].validationType = "partial"

\* C6: with no entry for the key the result is tagged full, lists all six
\* compared fields as changed and none as reused, and an entry for the key is
\* stored.
C6_FullListsAllFields ==
    \A i \in Results :
        (ret[i].prev = <<>> /\ ~ret[i].cleared) =>
            /\ ret[i].result[1].validationType = "full"
            /\ Range(ret[i].result[1].changedFields) = FieldSet
            /\ ret[i].result[1].cachedFields = <<>>
            /\ getTicketHistory(history, ret[i].key) # <<>>

\* C10: the entry stored after a merge holds a result for each of the six
\* fields and for nothing else.
C10_EntryHasAllFields ==
    \A i \in Results :
        (ret[i].wrote /\ ret[i].prev # <<>> /\ ~ret[i].cleared) =>
            Range(Fields(getTicketHistory(history, ret[i].key)[1].fieldResults)) = FieldSet

\* C17: Clear History leaves no entry for any ticket key, and the first
\* validation of a ticket that reads the store after it, with the content the
\* removed entry was computed against, returns full.
C17_ClearThenFull ==
    [][/\ (dropped' # dropped /\ history' # history) =>
              \A k \in Keys : getTicketHistory(history', k) = <<>>
       /\ \A i \in 1..Len(ret') :
              ( /\ ret' # ret
                /\ ret'[i].outcome = "result"
                /\ ret'[i].first # <<>>
                /\ SameContent(ret'[i].snapshot[1], ret'[i].first[1]) )
              => ret'[i].result[1].validationType = "full"]_vars

\* C11: one rounding policy: the aggregate score a result carries equals the
\* overallScore stored for the same list of field results.
C11_OnePolicy ==
    \A i \in Results :
        LET result == ret[i].result[1]
            entry == getTicketHistory(history, ret[i].key)
        IN  ( /\ entry # <<>>
              /\ result.fieldResults # <<>>
              /\ entry[1].fieldResults = result.fieldResults )
            => result.score = entry[1].overallScore

\* C12: every field result of a stored entry says whether it is valid, and the
\* entry's isValid is true iff each of them is valid and the entry's aggregate
\* score is at least 7, whichever validator the field results came from.
C12_EntryValidity ==
    \A n \in 1..Len(history) :
        LET entry == history[n]
            flags == {entry.fieldResults[j].isValid : j \in 1..Len(entry.fieldResults)}
        IN  /\ flags \subseteq {"true", "false"}
            /\ entry.isValid <=> (flags \subseteq {"true"} /\ entry.overallScore >= 7)

\* C13: an empty list of field results is rejected: no stored entry has one and
\* no result is produced from one.
C13_NoEmptyList ==
    /\ \A n \in 1..Len(history) : history[n].fieldResults # <<>>
    /\ \A i \in Results :
          /\ ret[i].result[1].fieldResults # <<>>
          /\ ret[i].result[1].score # NaN

\* C16: a request that fails writes nothing: the step in which it fails leaves
\* the store as it is, and when nothing else returned since the request
\* started, the entry of its ticket is the one it read.
C16_FailureKeepsEntry ==
    [][\A i \in 1..Len(ret') :
          (ret' # ret /\ ~ret'[i].cleared /\ ret'[i].outcome = "error") =>
              /\ history' = history
              /\ ~ret'[i].wrote
              /\ ( /\ ret'[i].prev # <<>>
                    /\ ret'[i].after = RetId
                    /\ getTicketHistory(history', ret'[i].key) # <<>> )
                 => getTicketHistory(history', ret'[i].key) = ret'[i].prev]_vars

\* a refresh found the ticket changed, its validator call failed, and the entry
\* it read is still the stored one
C16_Witness ==
    \E i \in 1..Len(ret) :
        /\ ret[i].kind = "single"
        /\ ret[i].outcome = "error"
        /\ ret[i].prev # <<>>
        /\ ret[i].changed # <<>>
        /\ getTicketHistory(history, ret[i].key) = ret[i].prev

\* the ticket keys of a history, in order
TicketKeysOf(h) == [n \in 1..Len(h) |-> h[n].ticketKey]

\* C18: the history holds at most one entry per ticket key; a write replaces
\* the entry of its key in place by the complete new entry, or appends one
\* entry for a new key; only Clear History removes entries.
C18_OneEntryPerKey ==
    [][/\ \A m, n \in 1..Len(history') :
              history'[m].ticketKey = history'[n].ticketKey => m = n
       /\ history' # history =>
              \/ history' = <<>>
              \/ /\ ret' # ret /\ Len(ret') = 1 /\ ret'[1].wrote
                 /\ LET k == ret'[1].key
                        old == {n \in 1..Len(history) : history[n].ticketKey = k}
                    IN  /\ \E n \in 1..Len(history') :
                               /\ history'[n].ticketKey = k
                               /\ history'[n].snapshot = ret'[1].snapshot[1]
                               /\ history'[n].fieldResults = ret'[1].result[1].fieldResults
                               /\ history'[n].timestamp = clock'
                               /\ \A m \in 1..Len(history) :
                                      m # n => history'[m] = history[m]
                               /\ IF old = {}
                                  THEN n = Len(history) + 1 /\ Len(history') = n
                                  ELSE n \in old /\ Len(history') = Len(history)]_vars

\* T1 was stored first, T2 after it, and T1 was then rewritten in its place
C18_Witness ==
    /\ TicketKeysOf(history) = <<"T1", "T2">>
    /\ history[1].timestamp > history[2].timestamp

\* C20: in a partial revalidation each validator call for a field that has a
\* result in the cached entry carries that result as its previous feedback.
C20_PreviousContext ==
    \A i \in 1..Len(ret) :
        ret[i].prev # <<>> =>
            \A c \in 1..Len(ret[i].calls) :
                ret[i].calls[c].previous =
                    Find(ret[i].prev[1].fieldResults, ret[i].calls[c].field)

-----------------------------------------------------------------------------
(* The validate-tickets route alone: every request body, then the call *)

\* field names a request can carry: three the route knows and one it does not
RequestFieldNames == {"summary", "priority", "assignee", "labels"}

FieldLists == SeqsUpTo(RequestFieldNames, MaxFields)

RequestTickets ==
    {[key |-> "T1", summary |-> "a", description |-> "a", priority |-> "b",
      status |-> "a", assignee |-> v, reporter |-> "a", created |-> "a"] :
        v \in {"a", Unset}}

SpecPostInit ==
    /\ Idle
    /\ fn \in UNION {
            [op : {"POST"}, ticket : RequestTickets, fieldsToValidate : {<<l>>},
             outs : [1..Len(l) -> FieldOutcomes], out : {CHOOSE o \in FullOutcomes : TRUE},
             response : {<<>>}, done : {FALSE}] : l \in FieldLists}
          \cup
            [op : {"POST"}, ticket : RequestTickets, fieldsToValidate : {<<>>},
             outs : {<<>>}, out : FullOutcomes,
             response : {<<>>}, done : {FALSE}]

CallPOST ==
    /\ fn.op = "POST" /\ ~fn.done
    /\ fn' = [fn EXCEPT !.response = <<POST(fn.ticket, fn.fieldsToValidate, fn.outs,
                                            fn.out, clock)>>,
                        !.done = TRUE]
    /\ UNCHANGED <<jira, edits, tickets, validationResults, isLoading, revalidatingTicketKey,
                   error, fetching, history, clock, reqs, nreq, ret, dropped>>

SpecPostNext == CallPOST

SpecPost == SpecPostInit /\ [][SpecPostNext]_vars

\* a field-specific request has been answered
FieldSpecificDone == fn.op = "POST" /\ fn.done /\ fn.fieldsToValidate # <<>>

\* C14: when the validator call of a field throws or its text cannot be parsed,
\* the request still succeeds, that field gets the sentinel (score 0, one
\* issue, one suggestion), every other field gets its own result and the score
\* is the mean over the list with the 0 in it.
C14_SentinelPerField ==
    LET fields == fn.fieldsToValidate[1]
        failed == {i \in 1..Len(fields) : fn.outs[i].kind \in {"throw", "unparsable"}}
    IN  (FieldSpecificDone /\ failed # {}) =>
            /\ fn.response[1].status = "200"
            /\ LET body == fn.response[1].body[1]
               IN  /\ Len(body.fieldResults) = Len(fields)
                   /\ \A i \in 1..Len(fields) :
                          /\ body.fieldResults[i].field = fields[i]
                          /\ IF i \in failed
                             THEN /\ body.fieldResults[i].score = 0
                                  /\ Len(body.fieldResults[i].issues) = 1
                                  /\ Len(body.fieldResults[i].suggestions) = 1
                             ELSE /\ body.fieldResults[i].score = fn.outs[i].score
                                  /\ body.fieldResults[i].issues = fn.outs[i].issues
                                  /\ body.fieldResults[i].suggestions = fn.outs[i].suggestions
                   /\ body.score = MathFloorMean(body.fieldResults)

\* C19: a field-specific request whose fieldsToValidate is empty or names a
\* field outside the known six is answered with an error and makes no
\* generateText call.
C19_InvalidInputRejected ==
    LET fields == fn.fieldsToValidate[1]
    IN  (FieldSpecificDone /\ (fields = <<>> \/ \E i \in 1..Len(fields) : fields[i] \notin FieldSet)) =>
            /\ fn.response[1].status # "200"
            /\ fn.response[1].calls = <<>>

-----------------------------------------------------------------------------
(* The store operations of ValidationHistoryManager alone *)

\* an entry as updateTicketHistory writes it
StoredEntry(k, score) ==
    updateTicketHistory(<<>>, k,
        [key |-> k, summary |-> "a", description |-> "a", priority |-> "a",
         status |-> "a", assignee |-> "a", reporter |-> "a", created |-> "a"],
        <<MergeEntry("summary", score)>>, 0)[1]

\* histories with at most one entry per key
StoredHistories ==
    {h \in SeqsUpTo({StoredEntry(k, sc) : k \in Keys, sc \in {5, 8}}, Cardinality(Keys)) :
        \A m, n \in 1..Len(h) : h[m].ticketKey = h[n].ticketKey => m = n}

SpecStoreInit ==
    /\ Idle
    /\ fn \in [op : {"getHistory", "clearHistory"}, store : Stores, stored : StoredHistories,
                arg : {<<>>}, out : {<<>>}, done : {FALSE}]
          \cup
               [op : {"saveHistory"}, store : Stores, stored : StoredHistories,
                arg : StoredHistories, out : {<<>>}, done : {FALSE}]

CallGetHistory ==
    /\ fn.op = "getHistory" /\ ~fn.done
    /\ fn' = [fn EXCEPT !.out = <<getHistory(fn.store, fn.stored)>>, !.done = TRUE]
    /\ UNCHANGED <<jira, edits, tickets, validationResults, isLoading, revalidatingTicketKey,
                   error, fetching, history, clock, reqs, nreq, ret, dropped>>

CallSaveHistory ==
    /\ fn.op = "saveHistory" /\ ~fn.done
    /\ fn' = [fn EXCEPT !.out = <<saveHistory(fn.store, fn.stored, fn.arg)>>, !.done = TRUE]
    /\ UNCHANGED <<jira, edits, tickets, validationResults, isLoading, revalidatingTicketKey,
                   error, fetching, history, clock, reqs, nreq, ret, dropped>>

CallClearHistory ==
    /\ fn.op = "clearHistory" /\ ~fn.done
    /\ fn' = [fn EXCEPT !.out = <<clearHistoryIn(fn.store, fn.stored)>>, !.done = TRUE]
    /\ UNCHANGED <<jira, edits, tickets, validationResults, isLoading, revalidatingTicketKey,
                   error, fetching, history, clock, reqs, nreq, ret, dropped>>

SpecStoreNext ==
    \/ CallGetHistory
    \/ CallSaveHistory
    \/ CallClearHistory

SpecStore == SpecStoreInit /\ [][SpecStoreNext]_vars

\* C15: a store operation that cannot be performed throws: getHistory returns
\* normally only with what is stored, saveHistory and clearHistory only after
\* the store holds what they were to write.
C15_StoreFailureSurfaces ==
    (fn.op \in {"getHistory", "saveHistory", "clearHistory"} /\ fn.done) =>
        /\ fn.store # "browser" => fn.out[1].threw
        /\ ~fn.out[1].threw =>
              CASE fn.op = "getHistory" -> fn.out[1].value = fn.stored
                [] fn.op = "saveHistory" -> fn.out[1].stored = fn.arg
                [] OTHER -> fn.out[1].stored = <<>>

-----------------------------------------------------------------------------
(* Claims about batches, frames and termination *)

\* the tasks of the pending validateTickets call that stored an entry and wait
\* for the other tickets
StoredTasks ==
    {i \in DOMAIN reqs : /\ reqs[i].kind = "batch" /\ reqs[i].live
                          /\ reqs[i].pc = "resolved"
                          /\ reqs[i].result[1].validationType # "cached"}

\* C21: no cross-ticket locking is needed: the step in which a request stores
\* its entry puts that entry (its snapshot, its field results) in the history
\* and leaves the entry of every other ticket key as it is, and up to the end of
\* the batch every ticket a task of the batch stored still has an entry.
C21_NoLostWrite ==
    [][/\ (ret' # ret /\ Len(ret') = 1 /\ ret'[1].wrote) =>
              /\ LET entry == getTicketHistory(history', ret'[1].key)
                 IN  /\ entry # <<>>
                     /\ entry[1].snapshot = ret'[1].snapshot[1]
                     /\ entry[1].fieldResults = ret'[1].result[1].fieldResults
              /\ \A k \in Keys \ {ret'[1].key} :
                     getTicketHistory(history', k) = getTicketHistory(history, k)
       /\ \A i \in StoredTasks : getTicketHistory(history', reqs[i].key) # <<>>]_vars

\* a batch of two tickets ended: both went to the validator, T1 stored first,
\* T2 after it, and the history holds what each of them stored
C21_Witness ==
    /\ Len(ret) = 1 /\ ret[1].kind = "batch" /\ ret[1].live /\ ret[1].wrote
    /\ ~isLoading
    /\ Len(validationResults) = 2
    /\ \A n \in 1..2 :
          /\ validationResults[n].validationType # "cached"
          /\ LET entry == getTicketHistory(history, validationResults[n].ticket.key)
             IN  /\ entry # <<>>
                 /\ entry[1].fieldResults = validationResults[n].fieldResults
    /\ validationResults[1].ticket.key # validationResults[2].ticket.key
    /\ getTicketHistory(history, validationResults[1].ticket.key)[1].timestamp
          < getTicketHistory(history, validationResults[2].ticket.key)[1].timestamp

\* C22: the tickets of a batch are validated independently: when the task of
\* one ticket fails, the results of the tasks of the same validateTickets call
\* that have returned are handed to the caller.
C22_OthersStillReturned ==
    [][(/\ ret' # ret /\ Len(ret') = 1
        /\ ret'[1].kind = "batch" /\ ret'[1].live /\ ret'[1].outcome = "error") =>
            \A j \in DOMAIN reqs :
                (reqs[j].kind = "batch" /\ reqs[j].live /\ reqs[j].pc = "resolved") =>
                    reqs[j].result[1] \in Range(validationResults')]_vars

-----------------------------------------------------------------------------
(* updateTicketHistory alone: every stored history, then the call *)

\* the field results handed to the call: none, one, two
UpdateResults ==
    {<<>>, <<MergeEntry("summary", 6)>>,
     <<MergeEntry("summary", 9), MergeEntry("description", 6)>>}

SpecUpdateInit ==
    /\ Idle
    /\ fn \in [op : {"updateTicketHistory"}, h : StoredHistories, ticketKey : Keys,
               description : Values, fieldResults : UpdateResults,
               out : {<<>>}, done : {FALSE}]

CallUpdateTicketHistory ==
    /\ fn.op = "updateTicketHistory" /\ ~fn.done
    /\ fn' = [fn EXCEPT
                !.out = updateTicketHistory(fn.h, fn.ticketKey,
                            [key |-> fn.ticketKey, summary |-> "a",
                             description |-> fn.description, priority |-> "a",
                             status |-> "a", assignee |-> "a", reporter |-> "a",
                             created |-> "a"],
                            fn.fieldResults, clock + 1),
                !.done = TRUE]
    /\ UNCHANGED <<jira, edits, tickets, validationResults, isLoading, revalidatingTicketKey,
                   error, fetching, history, clock, reqs, nreq, ret, dropped>>

SpecUpdateNext == CallUpdateTicketHistory

SpecUpdate == SpecUpdateInit /\ [][SpecUpdateNext]_vars

UpdateDone == fn.op = "updateTicketHistory" /\ fn.done

\* C23: updateTicketHistory(k, ...) changes only the entry of key k: every
\* entry of another key is the same record at the same place in the list, and
\* the entry of k stands where the old one stood, or at the end when there was
\* none.
C23_OnlyOwnEntry ==
    UpdateDone =>
        /\ \A n \in 1..Len(fn.h) :
              fn.h[n].ticketKey # fn.ticketKey => (n <= Len(fn.out) /\ fn.out[n] = fn.h[n])
        /\ SelectSeq(fn.out, LAMBDA e : e.ticketKey # fn.ticketKey)
              = SelectSeq(fn.h, LAMBDA e : e.ticketKey # fn.ticketKey)
        /\ TicketKeysOf(fn.out) =
              IF fn.ticketKey \in Range(TicketKeysOf(fn.h))
              THEN TicketKeysOf(fn.h) ELSE Append(TicketKeysOf(fn.h), fn.ticketKey)

\* T1 is rewritten in a history that holds T1 and then T2: T1's entry is the
\* new one, in first place, and T2's is the old one
C23_Witness ==
    /\ UpdateDone
    /\ fn.ticketKey = "T1"
    /\ TicketKeysOf(fn.h) = <<"T1", "T2">>
    /\ fn.out[1] # fn.h[1]
    /\ fn.out[1].timestamp = clock + 1
    /\ fn.out[2] = fn.h[2]

\* C24: cache coherence.  The history starts empty, and every step that stores
\* an entry stores the snapshot of the request with field results that were each
\* evaluated against that snapshot: after a full validation the ticket the
\* validator judged is the snapshot; after a merge the result of a changed
\* field is the fresh one of this response (stamped with its time) from a call
\* that carried the snapshot's value, and the result of an unchanged field is
\* the one of the entry the request read, whose snapshot has the same value
\* for the field.  This holds also when the entry read has been replaced or
\* removed since.
C24_Coherent ==
    [][(ret' # ret /\ Len(ret') = 1 /\ ret'[1].wrote /\ ~ret'[1].cleared) =>
          LET r == ret'[1]
              entry == getTicketHistory(history', r.key)[1]
          IN  /\ entry.snapshot = r.snapshot[1]
              /\ r.prev = <<>> => createTicketSnapshot(r.result[1].ticket) = entry.snapshot
              /\ r.prev # <<>> =>
                    \A j \in 1..Len(entry.fieldResults) :
                        LET fr == entry.fieldResults[j]
                        IN  IF fr.field \in Range(r.changed)
                            THEN /\ fr.lastValidated = clock
                                 /\ \E c \in 1..Len(r.calls) :
                                        /\ r.calls[c].field = fr.field
                                        /\ r.calls[c].value =
                                              getFieldValue(entry.snapshot, fr.field)
                            ELSE /\ fr \in Range(r.prev[1].fieldResults)
                                 /\ entry.snapshot[fr.field] = r.prev[1].snapshot[fr.field]]_vars

\* three entries were stored, the history holds one, and the request that
\* stored the third had read the first: its merge reuses results of an entry
\* that was no longer the stored one
C24_Witness ==
    /\ Len(ret) = 1 /\ ret[1].wrote /\ ~ret[1].cleared
    /\ ret[1].prev # <<>>
    /\ ret[1].prev[1].timestamp = 1
    /\ clock = 3
    /\ Len(history) = 1
    /\ history[1].timestamp = 3
    /\ \E j \in 1..Len(history[1].fieldResults) :
          history[1].fieldResults[j].field \notin Range(ret[1].changed)

\* C25: in a partial result changedFields and cachedFields are disjoint, every
\* field of fieldResults is in one of the two, and every field of cachedFields
\* carries the result it had in the entry the request read.
C25_PartialPartition ==
    \A i \in Results :
        LET result == ret[i].result[1]
        IN  result.validationType = "partial" =>
                /\ Range(result.changedFields) \cap Range(result.cachedFields) = {}
                /\ \A j \in 1..Len(result.fieldResults) :
                       result.fieldResults[j].field
                           \in Range(result.changedFields) \cup Range(result.cachedFields)
                /\ \A f \in Range(result.cachedFields) :
                       /\ Find(ret[i].prev[1].fieldResults, f) # <<>>
                       /\ SelectSeq(result.fieldResults, LAMBDA r : r.field = f)
                             = Find(ret[i].prev[1].fieldResults, f)

\* a refresh revalidated the description and reused the other five results
C25_Witness ==
    \E i \in Results :
        /\ ret[i].kind = "single"
        /\ ret[i].result[1].validationType = "partial"
        /\ ret[i].result[1].changedFields = <<"description">>
        /\ Range(ret[i].result[1].cachedFields) = FieldSet \ {"description"}
        /\ Len(ret[i].result[1].fieldResults) = Len(FieldNames)

\* the place of a field name in the order C26 states: its first index in P, or
\* after all of P its first index in F
MergeRank(P, F, n) ==
    IF n \in Range(Fields(P))
    THEN CHOOSE i \in 1..Len(P) : P[i].field = n /\ \A j \in 1..(i - 1) : P[j].field # n
    ELSE Len(P) + (CHOOSE i \in 1..Len(F) :
                      F[i].field = n /\ \A j \in 1..(i - 1) : F[j].field # n)

\* C26: mergeValidationResults is a function of its inputs; the list it returns
\* has at most one entry per field name, in the order of the first occurrence
\* of the names in previousResults followed by the names only newResults has,
\* and is the same for every order of the same changed fields.
C26_OrderStable ==
    MergeDone =>
        /\ \A i, j \in 1..Len(fn.out) :
              i < j => MergeRank(fn.previousResults, fn.newResults, fn.out[i].field)
                         < MergeRank(fn.previousResults, fn.newResults, fn.out[j].field)
        /\ \A c \in ChangedLists :
              Range(c) = Range(fn.changedFields) =>
                  mergeValidationResults(fn.previousResults, fn.newResults, c) = fn.out

\* reporter and summary changed, listed in that order; P has summary, F has
\* reporter then summary: the output is summary, then reporter, both fresh
C26_Witness ==
    /\ MergeDone
    /\ Fields(fn.previousResults) = <<"summary">>
    /\ Fields(fn.newResults) = <<"reporter", "summary">>
    /\ fn.changedFields = <<"reporter", "summary">>
    /\ fn.out = <<fn.newResults[2], fn.newResults[1]>>

\* C27: after Clear History no entry is stored that was built from results
\* cached before it: a request that read an entry and writes when the store
\* no longer holds one for its key (only Clear History removes entries) stores
\* no field result of the entry it read.
C27_NoResurrection ==
    [][(/\ ret' # ret /\ Len(ret') = 1
        /\ ret'[1].wrote /\ ~ret'[1].cleared
        /\ ret'[1].prev # <<>>
        /\ getTicketHistory(history, ret'[1].key) = <<>>) =>
            LET entry == getTicketHistory(history', ret'[1].key)[1]
            IN  \A j \in 1..Len(entry.fieldResults) :
                    entry.fieldResults[j] \notin Range(ret'[1].prev[1].fieldResults)]_vars

-----------------------------------------------------------------------------
(* The scores alone: every list of per-field scores and every overall score
   the language model can give, then each place that hands out a score *)

\* length of the field-result lists whose scores are aggregated
MaxScores == 3

\* per-field scores: the ends of the range, the threshold and its neighbours
ScoreValues == {0, 5, 7, 8, 10}

\* the overall score of a full analysis, which the language model states itself
OverallScores == {0, 3, 8, 10}

\* non-empty lists of field results, the i-th for the i-th field
ScoreLists ==
    {[i \in 1..Len(s) |-> LlmFieldResult(FieldNames[i], "true", s[i])] :
        s \in SeqsUpTo(ScoreValues, MaxScores) \ {<<>>}}

ScoreTicket ==
    [key |-> "T1", summary |-> "a", description |-> "a", priority |-> "a",
     status |-> "a", assignee |-> "a", reporter |-> "a", created |-> "a"]

\* the places a score comes from: the stored entry, the cached and the partial
\* result, and the full result of either entry point
ScoreOps == {"updateTicketHistory", "cached", "partial", "fullBatch", "fullSingle"}

SpecScoreInit ==
    /\ Idle
    /\ fn \in [op : ScoreOps, fieldResults : ScoreLists, overall : OverallScores,
               out : {0}, done : {FALSE}]

\* the entry updateTicketHistory stores for the list
ScoreEntry(fieldResults) ==
    updateTicketHistory(<<>>, ScoreTicket.key, createTicketSnapshot(ScoreTicket),
                        fieldResults, clock + 1)[1]

\* the body validateFullTicket returns for an analysis with the list
ScoreBody(fieldResults, overall) ==
    validateFullTicket(ScoreTicket,
        [kind |-> "json", score |-> overall, fieldResults |-> fieldResults]).body[1]

CallStoredScore ==
    /\ fn.op = "updateTicketHistory" /\ ~fn.done
    /\ fn' = [fn EXCEPT !.out = ScoreEntry(fn.fieldResults).overallScore, !.done = TRUE]
    /\ UNCHANGED <<jira, edits, tickets, validationResults, isLoading, revalidatingTicketKey,
                   error, fetching, history, clock, reqs, nreq, ret, dropped>>

CallCachedScore ==
    /\ fn.op = "cached" /\ ~fn.done
    /\ fn' = [fn EXCEPT !.out = CachedResult(ScoreTicket, ScoreEntry(fn.fieldResults)).score,
                        !.done = TRUE]
    /\ UNCHANGED <<jira, edits, tickets, validationResults, isLoading, revalidatingTicketKey,
                   error, fetching, history, clock, reqs, nreq, ret, dropped>>

CallPartialScore ==
    /\ fn.op = "partial" /\ ~fn.done
    /\ fn' = [fn EXCEPT !.out = PartialResult(ScoreTicket, ScoreEntry(fn.fieldResults),
                                              <<>>, fn.fieldResults).score,
                        !.done = TRUE]
    /\ UNCHANGED <<jira, edits, tickets, validationResults, isLoading, revalidatingTicketKey,
                   error, fetching, history, clock, reqs, nreq, ret, dropped>>

CallFullBatchScore ==
    /\ fn.op = "fullBatch" /\ ~fn.done
    /\ fn' = [fn EXCEPT !.out = FullResultBatch(ScoreBody(fn.fieldResults, fn.overall)).score,
                        !.done = TRUE]
    /\ UNCHANGED <<jira, edits, tickets, validationResults, isLoading, revalidatingTicketKey,
                   error, fetching, history, clock, reqs, nreq, ret, dropped>>

CallFullSingleScore ==
    /\ fn.op = "fullSingle" /\ ~fn.done
    /\ fn' = [fn EXCEPT !.out = FullResultSingle(ScoreBody(fn.fieldResults, fn.overall)).score,
                        !.done = TRUE]
    /\ UNCHANGED <<jira, edits, tickets, validationResults, isLoading, revalidatingTicketKey,
                   error, fetching, history, clock, reqs, nreq, ret, dropped>>

SpecScoreNext ==
    \/ CallStoredScore
    \/ CallCachedScore
    \/ CallPartialScore
    \/ CallFullBatchScore
    \/ CallFullSingleScore

SpecScore == SpecScoreInit /\ [][SpecScoreNext]_vars

ScoreDone == fn.op \in ScoreOps /\ fn.done

\* C28: for a non-empty list of field results with integer scores in 0..10,
\* the score handed to the caller and the overallScore stored are integers in
\* 0..10 between the smallest and the largest score of the list.
C28_ScoreInRange ==
    ScoreDone =>
        LET scores == {fn.fieldResults[i].score : i \in 1..Len(fn.fieldResults)}
        IN  /\ fn.out \in 0..10
            /\ \E lo \in scores : lo <= fn.out
            /\ \E hi \in scores : fn.out <= hi

\* C29: a partial revalidation stores an entry with the snapshot of the current
\* ticket and the merge of the results of the entry it read with the fresh
\* results of the changed fields (one per changed field, stamped with the time
\* of the response), and the result it returns carries the stored list.
C29_PartialPersistsMerge ==
    \A i \in Results :
        LET r == ret[i]
            result == r.result[1]
            entry == getTicketHistory(history, r.key)
            fresh == SelectSeq(result.fieldResults, LAMBDA fr : fr.field \in Range(r.changed))
        IN  (result.validationType = "partial" /\ ~r.cleared) =>
                /\ r.wrote
                /\ entry # <<>>
                /\ entry[1].snapshot = createTicketSnapshot(result.ticket)
                /\ entry[1].snapshot = r.snapshot[1]
                /\ entry[1].fieldResults = result.fieldResults
                /\ Range(Fields(fresh)) = Range(r.changed)
                /\ \A j \in 1..Len(fresh) : fresh[j].lastValidated = clock - 1
                /\ result.fieldResults =
                      mergeValidationResults(r.prev[1].fieldResults, fresh, r.changed)

\* a batch task found the description changed: the stored list is the returned
\* one, with a fresh description and the old summary
C29_Witness ==
    \E i \in Results :
        /\ ret[i].kind = "batch"
        /\ ~ret[i].cleared
        /\ ret[i].result[1].validationType = "partial"
        /\ ret[i].changed = <<"description">>
        /\ getTicketHistory(history, ret[i].key)[1].fieldResults = ret[i].result[1].fieldResults
        /\ Find(ret[i].result[1].fieldResults, "description")
              # Find(ret[i].prev[1].fieldResults, "description")
        /\ Find(ret[i].result[1].fieldResults, "summary")
              = Find(ret[i].prev[1].fieldResults, "summary")
        /\ Find(ret[i].prev[1].fieldResults, "summary") # <<>>

-----------------------------------------------------------------------------
(* Termination.  The page with every call it awaits answered in the end: the
   response of a pending fetch (Jira, validator) arrives or the fetch fails.
   Clicks and edits are under no obligation. *)

\* the page while at most LiveRequests validation requests are started
NextLive == Next /\ nreq' <= LiveRequests

\* a response of the validator is possible exactly while a request awaits it
\* (its fetch can always fail), so the weak fairness of TaskResponds and of
\* ValidatorResponds is written with that condition in the place of ENABLED
SpecLive ==
    /\ Init
    /\ [][NextLive]_vars
    /\ WF_vars(FetchResponds)
    /\ WF_vars(JiraResponds)
    /\ ([]<>(Awaiting("batch") = {}) \/ []<><<TaskResponds>>_vars)
    /\ ([]<>(Awaiting("single") = {}) \/ []<><<ValidatorResponds>>_vars)

\* C30: every validation request ends and releases its busy flag: isLoading
\* set by validateTickets is cleared in the end, revalidatingTicketKey set by
\* refreshAndRevalidateSingleTicket is null again in the end, and no request
\* stays in flight, whether its calls succeed or fail.
C30_BusyFlagsReleased ==
    /\ isLoading ~> ~isLoading
    /\ (revalidatingTicketKey # <<>>) ~> (revalidatingTicketKey = <<>>)
    /\ \A id \in 1..LiveRequests : (id \in DOMAIN reqs) ~> (id \notin DOMAIN reqs)

\* a refresh whose validator call failed has ended: the error is shown, the
\* flag is null and nothing is in flight
C30_Witness ==
    /\ Len(ret) = 1 /\ ret[1].kind = "single" /\ ret[1].outcome = "error"
    /\ ret[1].calls # <<>>
    /\ error = "Failed to re-validate ticket"
    /\ revalidatingTicketKey = <<>>
    /\ ~isLoading
    /\ DOMAIN reqs = {}

====
